---- MODULE Spec2Model ----
(***************************************************************************)
(* Retry-with-error-classification layer of the cocoa AWS client wrappers  *)
(* (ecs.BasicClient and secret.BasicSecretsManagerClient).                 *)
(*                                                                         *)
(* One call of one operation is modelled end to end: lazy setup, the       *)
(* utility.Retry loop, the remote call, the operation's attempt closure    *)
(* (classification of the remote result) and the operation's return.       *)
(* Strings that the code searches with strings.Contains are modelled as    *)
(* sequences of phrases; Contains looks for a phrase in the sequence.      *)
(***************************************************************************)
EXTENDS Integers, Sequences, FiniteSets, TLC

(* ---------------- bounds of the model ---------------- *)
MaxAttemptsBound == 3
MaxFailures == 2
MaxTasks == 1
MaxConvertCalls == 2
MaxCallers == 3

(* ---------------- values ---------------- *)
Nil == "<nil>"

NilErr == [kind |-> "nil"]
NilOut == [kind |-> "nilout"]

CapacityPhrase == "provisioning capacity limit exceeded"
TaskNotFoundPhrase == "The referenced task was not found"
ReasonTaskMissing == "MISSING"

Phrases(text) == {text[i] : i \in DOMAIN text}

\* strings.Contains(s, substr) on a text made of phrases
Contains(text, phrase) == \E i \in DOMAIN text : text[i] = phrase

(* ---------------- the two clients and their operations ---------------- *)
ECSGenericOps ==
  {"RegisterTaskDefinition", "DescribeTaskDefinition", "ListTaskDefinitions",
   "DeregisterTaskDefinition", "DescribeTasks", "ListTasks", "TagResource"}

ECSOps == ECSGenericOps \cup {"RunTask", "StopTask"}

SMOps ==
  {"CreateSecret", "GetSecretValue", "DescribeSecret", "ListSecrets",
   "UpdateSecretValue", "SMTagResource", "DeleteSecret"}

Ops == ECSOps \cup SMOps

ClientOf(o) == IF o \in ECSOps THEN "ecs" ELSE "sm"

(* ---------------- what the remote service can answer ---------------- *)
Codes ==
  {"AccessDeniedException", "ClientException", "InvalidParameterException",
   "ClusterNotFoundException", "InvalidParameter", "ParamRequiredError",
   "InvalidRequestException", "ResourceNotFoundException",
   "ResourceExistsException", "ServerException", "ThrottlingException",
   "UnknownCode", ""}

RequestCanceledCode == "RequestCanceled"

Messages ==
  {<<"msg">>, <<CapacityPhrase>>, <<TaskNotFoundPhrase>>,
   <<"msg", CapacityPhrase>>}

\* awserr.Error values: code and message
RemoteErrors == [kind : {"aws"}, code : Codes, message : Messages]

\* errors that are not an awserr.Error; the text of the second one reads
\* like the task-not-found error of the service
PlainErrors ==
  {[kind |-> "plain", text |-> <<"connection reset">>],
   [kind |-> "plain", text |-> <<"InvalidParameterException", TaskNotFoundPhrase>>]}

RequestCanceledErr ==
  [kind |-> "aws", code |-> RequestCanceledCode,
   message |-> <<"request context canceled">>]

\* awserr.Error.Error(): "<code>: <message>"
ErrorText(e) == <<e.code>> \o e.message

\* ecs.Failure values of a RunTask response (a nil *ecs.Failure is NilFailure);
\* failures with absent or empty fields are among ConvertInputs
NilFailure == [kind |-> "nilfailure"]

Failures ==
  [kind : {"failure"}, Arn : {"arn:1"},
   Reason : {"RESOURCE:CPU", "RESOURCE:MEMORY", "OTHER"},
   Detail : {Nil}]
  \cup {NilFailure}

RECURSIVE SeqsUpTo(_, _)
SeqsUpTo(S, n) ==
  IF n = 0 THEN {<<>>}
  ELSE LET shorter == SeqsUpTo(S, n - 1)
       IN shorter \cup {Append(s, x) : s \in {t \in shorter : Len(t) = n - 1}, x \in S}

RunTaskOutputs ==
  [kind : {"runtask"}, Tasks : 0..MaxTasks, Failures : SeqsUpTo(Failures, MaxFailures)]

\* the output of the n-th invocation of any other operation
Payload(n) == [kind |-> "payload", id |-> n]

\* the (empty) output struct the SDK hands back next to an error
EmptyOut == [kind |-> "empty"]

\* results of one invocation: (out, err)
Responses(o, n) ==
  {[out |-> EmptyOut, err |-> e] : e \in RemoteErrors \cup PlainErrors}
  \cup (IF o = "RunTask"
        THEN {[out |-> r, err |-> NilErr] : r \in RunTaskOutputs}
        ELSE {[out |-> Payload(n), err |-> NilErr]})

(* ---------------- ConvertFailureToError ---------------- *)
FromStringPtr(p) == IF p = Nil THEN "" ELSE p

NilInt == -1

\* a nil *int64 read as ECS's default count of one task
FromInt64PtrDefaultOne(p) == IF p = NilInt THEN 1 ELSE p

FromInt64Ptr(p) == IF p = NilInt THEN 0 ELSE p

\* the not-found test without the check that the ARN is there
isTaskNotFoundFailureAnyArn(f) == FromStringPtr(f.Reason) = ReasonTaskMissing

isTaskNotFoundFailure(f) ==
  f.Arn # Nil /\ FromStringPtr(f.Reason) = ReasonTaskMissing

NewECSTaskNotFoundError(id) == [kind |-> "ECSTaskNotFound", id |-> id]

\* strings.Join(parts, ": ")
RECURSIVE Join(_)
Join(parts) ==
  IF Len(parts) = 0 THEN <<>>
  ELSE IF Len(parts) = 1 THEN parts[1]
  ELSE parts[1] \o <<": ">> \o Join(Tail(parts))

\* ConvertFailureToError appending the detail before the reason
ConvertFailureToErrorDetailFirst(f) ==
  IF f = NilFailure THEN NilErr
  ELSE IF isTaskNotFoundFailure(f)
  THEN NewECSTaskNotFoundError(FromStringPtr(f.Arn))
  ELSE LET arn == FromStringPtr(f.Arn)
           reason == FromStringPtr(f.Reason)
           detail == FromStringPtr(f.Detail)
           p1 == IF arn # "" THEN << <<"task '", arn, "'">> >> ELSE <<>>
           p2 == IF reason # "" THEN << <<"(reason) ", reason>> >> ELSE <<>>
           p3 == IF detail # "" THEN << <<"(detail) ", detail>> >> ELSE <<>>
           parts == p1 \o p3 \o p2
       IN IF Len(parts) = 0
          THEN [kind |-> "new",
                text |-> <<"ECS failure did not contain any additional failure information">>]
          ELSE [kind |-> "new", text |-> Join(parts)]

ConvertFailureToError(f) ==
  IF f = NilFailure THEN NilErr
  ELSE IF isTaskNotFoundFailure(f)
  THEN NewECSTaskNotFoundError(FromStringPtr(f.Arn))
  ELSE LET arn == FromStringPtr(f.Arn)
           reason == FromStringPtr(f.Reason)
           detail == FromStringPtr(f.Detail)
           p1 == IF arn # "" THEN << <<"task '", arn, "'">> >> ELSE <<>>
           p2 == IF reason # "" THEN << <<"(reason) ", reason>> >> ELSE <<>>
           p3 == IF detail # "" THEN << <<"(detail) ", detail>> >> ELSE <<>>
           parts == p1 \o p2 \o p3
       IN IF Len(parts) = 0
          THEN [kind |-> "new",
                text |-> <<"ECS failure did not contain any additional failure information">>]
          ELSE [kind |-> "new", text |-> Join(parts)]

(* ---------------- error classification ---------------- *)
\* the ECS classifier without the cluster-not-found case
ECS_isNonRetryableErrorCodeNoCluster(code) ==
  CASE code = "AccessDeniedException" -> TRUE
    [] code = "ClientException" -> TRUE
    [] code = "InvalidParameterException" -> TRUE
    [] code = "InvalidParameter" -> TRUE
    [] code = "ParamRequiredError" -> TRUE
    [] OTHER -> FALSE

ECS_isNonRetryableErrorCode(code) ==
  CASE code = "AccessDeniedException" -> TRUE
    [] code = "ClientException" -> TRUE
    [] code = "InvalidParameterException" -> TRUE
    [] code = "ClusterNotFoundException" -> TRUE
    [] code = "InvalidParameter" -> TRUE
    [] code = "ParamRequiredError" -> TRUE
    [] OTHER -> FALSE

\* the Secrets Manager classifier without the resource-exists case
SM_isNonRetryableErrorCodeNoExists(code) ==
  CASE code = "AccessDeniedException" -> TRUE
    [] code = "InvalidParameterException" -> TRUE
    [] code = "InvalidRequestException" -> TRUE
    [] code = "ResourceNotFoundException" -> TRUE
    [] code = "InvalidParameter" -> TRUE
    [] code = "ParamRequiredError" -> TRUE
    [] OTHER -> FALSE

\* the Secrets Manager classifier without the resource-not-found case
SM_isNonRetryableErrorCodeNoNotFound(code) ==
  CASE code = "AccessDeniedException" -> TRUE
    [] code = "InvalidParameterException" -> TRUE
    [] code = "InvalidRequestException" -> TRUE
    [] code = "ResourceExistsException" -> TRUE
    [] code = "InvalidParameter" -> TRUE
    [] code = "ParamRequiredError" -> TRUE
    [] OTHER -> FALSE

SM_isNonRetryableErrorCode(code) ==
  CASE code = "AccessDeniedException" -> TRUE
    [] code = "InvalidParameterException" -> TRUE
    [] code = "InvalidRequestException" -> TRUE
    [] code = "ResourceNotFoundException" -> TRUE
    [] code = "ResourceExistsException" -> TRUE
    [] code = "InvalidParameter" -> TRUE
    [] code = "ParamRequiredError" -> TRUE
    [] OTHER -> FALSE

isTaskNotFoundError(e) ==
  /\ e.kind = "aws"
  /\ e.code = "InvalidParameterException"
  /\ Contains(e.message, TaskNotFoundPhrase)

(* ---------------- the attempt closures: (shouldRetry, err) ---------------- *)
\* errors.Wrap(err, msg): nil when err is nil
Wrap(e, msg) == IF e = NilErr THEN NilErr ELSE [kind |-> "wrap", msg |-> msg, cause |-> e]

\* an ECS closure that ends with "return false, err"
ECSAttemptNoRetry(resp) == [retry |-> FALSE, err |-> resp.err]

\* the closure of every ECS operation other than RunTask and StopTask
ECSAttempt(resp) ==
  IF resp.err.kind = "aws" /\ ECS_isNonRetryableErrorCode(resp.err.code)
  THEN [retry |-> FALSE, err |-> resp.err]
  ELSE [retry |-> TRUE, err |-> resp.err]

\* a Secrets Manager closure that never asks the classifier
SMAttemptAlwaysRetry(resp) == [retry |-> TRUE, err |-> resp.err]

\* the closure of every Secrets Manager operation
SMAttempt(resp) ==
  IF resp.err.kind = "aws" /\ SM_isNonRetryableErrorCode(resp.err.code)
  THEN [retry |-> FALSE, err |-> resp.err]
  ELSE [retry |-> TRUE, err |-> resp.err]

\* grip catcher over the failures of a RunTask output: the errors added
RECURSIVE ResourceErrors(_)
ResourceErrors(fs) ==
  IF Len(fs) = 0 THEN <<>>
  ELSE LET f == Head(fs)
           rest == ResourceErrors(Tail(fs))
       IN IF f = NilFailure THEN rest
          ELSE IF FromStringPtr(f.Reason) \in {"RESOURCE:CPU", "RESOURCE:MEMORY"}
               THEN <<ConvertFailureToError(f)>> \o rest
               ELSE rest

\* catcher.Resolve(): nil without errors
Resolve(errs) == IF Len(errs) = 0 THEN NilErr ELSE [kind |-> "multi", errs |-> errs]

\* RunTask's closure retrying only when every failure is a resource failure
RunTaskAttemptAllResource(in, resp) ==
  IF resp.err.kind = "aws" /\ Contains(ErrorText(resp.err), CapacityPhrase)
  THEN [retry |-> TRUE, err |-> resp.err]
  ELSE IF resp.err.kind = "aws" /\ ECS_isNonRetryableErrorCode(resp.err.code)
  THEN [retry |-> FALSE, err |-> resp.err]
  ELSE IF resp.err # NilErr
  THEN [retry |-> TRUE, err |-> resp.err]
  ELSE IF FromInt64Ptr(in.Count) = 1 /\ resp.out.Tasks = 0 /\ Len(resp.out.Failures) > 0
  THEN LET errs == ResourceErrors(resp.out.Failures)
       IN [retry |-> Len(errs) = Len(resp.out.Failures),
           err |-> Wrap(Resolve(errs), "cluster has insufficient resources")]
  ELSE [retry |-> FALSE, err |-> NilErr]

\* RunTask's closure applying the heuristic to any count >= 1
RunTaskAttemptAnyCount(in, resp) ==
  IF resp.err.kind = "aws" /\ Contains(ErrorText(resp.err), CapacityPhrase)
  THEN [retry |-> TRUE, err |-> resp.err]
  ELSE IF resp.err.kind = "aws" /\ ECS_isNonRetryableErrorCode(resp.err.code)
  THEN [retry |-> FALSE, err |-> resp.err]
  ELSE IF resp.err # NilErr
  THEN [retry |-> TRUE, err |-> resp.err]
  ELSE IF FromInt64Ptr(in.Count) >= 1 /\ resp.out.Tasks = 0 /\ Len(resp.out.Failures) > 0
  THEN LET errs == ResourceErrors(resp.out.Failures)
       IN [retry |-> Len(errs) > 0,
           err |-> Wrap(Resolve(errs), "cluster has insufficient resources")]
  ELSE [retry |-> FALSE, err |-> NilErr]

\* RunTask's closure asking the classifier before looking at the text
RunTaskAttemptClassifierFirst(in, resp) ==
  IF resp.err.kind = "aws" /\ ECS_isNonRetryableErrorCode(resp.err.code)
  THEN [retry |-> FALSE, err |-> resp.err]
  ELSE IF resp.err.kind = "aws" /\ Contains(ErrorText(resp.err), CapacityPhrase)
  THEN [retry |-> TRUE, err |-> resp.err]
  ELSE IF resp.err # NilErr
  THEN [retry |-> TRUE, err |-> resp.err]
  ELSE IF FromInt64Ptr(in.Count) = 1 /\ resp.out.Tasks = 0 /\ Len(resp.out.Failures) > 0
  THEN LET errs == ResourceErrors(resp.out.Failures)
       IN [retry |-> Len(errs) > 0,
           err |-> Wrap(Resolve(errs), "cluster has insufficient resources")]
  ELSE [retry |-> FALSE, err |-> NilErr]

\* a catcher that takes the error of every failure, whatever its reason
RECURSIVE AnyReasonErrors(_)
AnyReasonErrors(fs) ==
  IF Len(fs) = 0 THEN <<>>
  ELSE IF Head(fs) = NilFailure THEN AnyReasonErrors(Tail(fs))
  ELSE <<ConvertFailureToError(Head(fs))>> \o AnyReasonErrors(Tail(fs))

\* RunTask's closure retrying a single task on failures of any reason
RunTaskAttemptAnyReason(in, resp) ==
  IF resp.err.kind = "aws" /\ Contains(ErrorText(resp.err), CapacityPhrase)
  THEN [retry |-> TRUE, err |-> resp.err]
  ELSE IF resp.err.kind = "aws" /\ ECS_isNonRetryableErrorCode(resp.err.code)
  THEN [retry |-> FALSE, err |-> resp.err]
  ELSE IF resp.err # NilErr
  THEN [retry |-> TRUE, err |-> resp.err]
  ELSE IF FromInt64Ptr(in.Count) = 1 /\ resp.out.Tasks = 0 /\ Len(resp.out.Failures) > 0
  THEN LET errs == AnyReasonErrors(resp.out.Failures)
       IN [retry |-> Len(errs) > 0,
           err |-> Wrap(Resolve(errs), "cluster has insufficient resources")]
  ELSE [retry |-> FALSE, err |-> NilErr]

\* RunTask's closure applying the heuristic without looking at the launched tasks
RunTaskAttemptIgnoresLaunched(in, resp) ==
  IF resp.err.kind = "aws" /\ Contains(ErrorText(resp.err), CapacityPhrase)
  THEN [retry |-> TRUE, err |-> resp.err]
  ELSE IF resp.err.kind = "aws" /\ ECS_isNonRetryableErrorCode(resp.err.code)
  THEN [retry |-> FALSE, err |-> resp.err]
  ELSE IF resp.err # NilErr
  THEN [retry |-> TRUE, err |-> resp.err]
  ELSE IF FromInt64Ptr(in.Count) = 1 /\ Len(resp.out.Failures) > 0
  THEN LET errs == ResourceErrors(resp.out.Failures)
       IN [retry |-> Len(errs) > 0,
           err |-> Wrap(Resolve(errs), "cluster has insufficient resources")]
  ELSE [retry |-> FALSE, err |-> NilErr]

RunTaskAttempt(in, resp) ==
  IF resp.err.kind = "aws" /\ Contains(ErrorText(resp.err), CapacityPhrase)
  THEN [retry |-> TRUE, err |-> resp.err]
  ELSE IF resp.err.kind = "aws" /\ ECS_isNonRetryableErrorCode(resp.err.code)
  THEN [retry |-> FALSE, err |-> resp.err]
  ELSE IF resp.err # NilErr
  THEN [retry |-> TRUE, err |-> resp.err]
  ELSE IF FromInt64Ptr(in.Count) = 1 /\ resp.out.Tasks = 0 /\ Len(resp.out.Failures) > 0
  THEN LET errs == ResourceErrors(resp.out.Failures)
       IN [retry |-> Len(errs) > 0,
           err |-> Wrap(Resolve(errs), "cluster has insufficient resources")]
  ELSE [retry |-> FALSE, err |-> NilErr]

\* StopTask's closure asking the classifier before the not-found check
StopTaskAttemptClassifierFirst(in, resp) ==
  IF resp.err.kind = "aws" /\ ECS_isNonRetryableErrorCode(resp.err.code)
  THEN [retry |-> FALSE, err |-> resp.err]
  ELSE IF resp.err.kind = "aws" /\ isTaskNotFoundError(resp.err)
  THEN [retry |-> FALSE, err |-> NewECSTaskNotFoundError(FromStringPtr(in.Task))]
  ELSE [retry |-> TRUE, err |-> resp.err]

\* StopTask's closure recognising the not-found error by its text alone
StopTaskAttemptByText(in, resp) ==
  IF \/ resp.err.kind = "aws" /\ isTaskNotFoundError(resp.err)
     \/ resp.err.kind = "plain" /\ Contains(resp.err.text, TaskNotFoundPhrase)
  THEN [retry |-> FALSE, err |-> NewECSTaskNotFoundError(FromStringPtr(in.Task))]
  ELSE IF resp.err.kind = "aws" /\ ECS_isNonRetryableErrorCode(resp.err.code)
  THEN [retry |-> FALSE, err |-> resp.err]
  ELSE [retry |-> TRUE, err |-> resp.err]

StopTaskAttempt(in, resp) ==
  IF resp.err.kind = "aws" /\ isTaskNotFoundError(resp.err)
  THEN [retry |-> FALSE, err |-> NewECSTaskNotFoundError(FromStringPtr(in.Task))]
  ELSE IF resp.err.kind = "aws" /\ ECS_isNonRetryableErrorCode(resp.err.code)
  THEN [retry |-> FALSE, err |-> resp.err]
  ELSE [retry |-> TRUE, err |-> resp.err]

Attempt(o, in, resp) ==
  IF o = "RunTask" THEN RunTaskAttempt(in, resp)
  ELSE IF o = "StopTask" THEN StopTaskAttempt(in, resp)
  ELSE IF o \in ECSOps THEN ECSAttempt(resp)
  ELSE SMAttempt(resp)

(* ---------------- utility.Retry ---------------- *)
\* the error Retry returns when the attempt budget is used up
Exhausted(e) == [kind |-> "wrap", msg |-> "retries exhausted", cause |-> e]

\* the error Retry returns when it finds the context done
Cancellation == [kind |-> "canceled"]

\* what Retry does with the result of attempt number att (0-based) under a
\* budget of m attempts.  An attempt without error ends the loop with nil
\* whatever shouldRetry says (the closures report success as (true, nil));
\* an error with shouldRetry = false is returned as it is; an error with
\* shouldRetry = true is wrapped as exhaustion after the last attempt, and
\* otherwise the timer is reset to the backoff delay.
RetryDecide(res, att, m) ==
  IF res.err = NilErr THEN [next |-> "return", err |-> NilErr]
  ELSE IF ~res.retry THEN [next |-> "return", err |-> res.err]
  ELSE IF att + 1 >= m THEN [next |-> "return", err |-> Exhausted(res.err)]
  ELSE [next |-> "sleep", err |-> res.err]

(* ---------------- the operations ---------------- *)
\* an operation handing a fresh background context to utility.Retry
RetryCtxBackground(o, c) == [done |-> FALSE, at |-> "none", inv |-> 0]

\* the context an operation hands to utility.Retry
RetryCtx(o, c) == c

\* an operation returning out next to the error
OpReturnKeepsOut(retryErr, o) == [out |-> o, err |-> retryErr]

\* an operation returning out and dropping the error of Retry
OpReturnDropsError(retryErr, o) == [out |-> o, err |-> NilErr]

\* the end of every operation: nil and the error of Retry, or out and nil
OpReturn(retryErr, o) ==
  IF retryErr # NilErr THEN [out |-> NilOut, err |-> retryErr]
  ELSE [out |-> o, err |-> NilErr]

\* the request of a call: Count matters to RunTask, Task to StopTask
Inputs(o) ==
  IF o = "RunTask" THEN [Count : {NilInt, 1, 2}, Task : {Nil}]
  ELSE IF o = "StopTask" THEN [Count : {NilInt}, Task : {Nil, "t1"}]
  ELSE [Count : {NilInt}, Task : {Nil}]

LiveCtx == [done |-> FALSE, at |-> "none", inv |-> 0]

VARIABLES
  handle,       \* per client: is c.ecs / c.sm set
  maxAttempts,  \* GetRetryOptions().MaxAttempts
  op,           \* the operation being called
  in,           \* its request
  ctx,          \* its context: done, and where the call was when it was cancelled
  pc,           \* "idle", "select" (Retry waits for timer or context), "remote", "done"
  attempt,      \* Retry's loop index
  invocations,  \* remote calls made by this call
  out,          \* the operation's out variable
  err,          \* the operation's err variable
  hist,         \* per finished attempt: kind of the remote error, and the closure's result
  ret,          \* what the operation returned
  failure,      \* the *ecs.Failure a caller hands to ConvertFailureToError
  results,      \* the errors ConvertFailureToError returned for it, in call order
  setupPc,      \* per concurrent caller: where it is in setup()
  setupOf,      \* per concurrent caller: the client it calls
  stores        \* per client: how often setup() assigned the service handle

callVars == <<maxAttempts, op, in, ctx, pc, attempt, invocations, out, err, hist, ret>>

convertVars == <<failure, results>>

setupVars == <<setupPc, setupOf, stores>>

vars == <<handle, maxAttempts, op, in, ctx, pc, attempt, invocations, out, err, hist, ret,
          failure, results, setupPc, setupOf, stores>>

NoRet == [out |-> NilOut, err |-> NilErr]

Callers == 1..MaxCallers

\* no conversion asked for
ConvertIdle ==
  /\ failure = NilFailure
  /\ results = <<>>

\* no concurrent callers
SetupIdle ==
  /\ setupPc = [c \in Callers |-> "idle"]
  /\ setupOf = [c \in Callers |-> "ecs"]
  /\ stores = [cl \in {"ecs", "sm"} |-> 0]

\* no call made yet
CallIdle ==
  /\ op = "none"
  /\ in = [Count |-> NilInt, Task |-> Nil]
  /\ ctx = LiveCtx
  /\ pc = "idle"
  /\ attempt = 0
  /\ invocations = 0
  /\ out = NilOut
  /\ err = NilErr
  /\ hist = <<>>
  /\ ret = NoRet

Init ==
  /\ ConvertIdle
  /\ SetupIdle
  /\ handle \in [{"ecs", "sm"} -> BOOLEAN]
  /\ maxAttempts \in 1..MaxAttemptsBound
  /\ op = "none"
  /\ in = [Count |-> NilInt, Task |-> Nil]
  /\ ctx = LiveCtx
  /\ pc = "idle"
  /\ attempt = 0
  /\ invocations = 0
  /\ out = NilOut
  /\ err = NilErr
  /\ hist = <<>>
  /\ ret = NoRet

SessionError == [kind |-> "plain", text |-> <<"no session">>]

SetupError == Wrap(Wrap(SessionError, "initializing session"), "setting up client")

\* an operation that starts its retry loop without running setup()
CallWithoutSetup(o, i, cancelledBefore) ==
  /\ pc = "idle"
  /\ op' = o
  /\ in' = i
  /\ ctx' = IF cancelledBefore THEN [done |-> TRUE, at |-> "idle", inv |-> 0] ELSE LiveCtx
  /\ pc' = "select"
  /\ attempt' = 0
  /\ invocations' = 0
  /\ out' = NilOut
  /\ err' = NilErr
  /\ hist' = <<>>
  /\ ret' = NoRet
  /\ UNCHANGED <<handle, maxAttempts>>

\* an operation is called and setup() succeeds (handle already set, or session obtained)
CallSetupOK(o, i, cancelledBefore) ==
  /\ pc = "idle"
  /\ op' = o
  /\ in' = i
  /\ ctx' = IF cancelledBefore THEN [done |-> TRUE, at |-> "idle", inv |-> 0] ELSE LiveCtx
  /\ handle' = [handle EXCEPT ![ClientOf(o)] = TRUE]
  /\ pc' = "select"
  /\ attempt' = 0
  /\ invocations' = 0
  /\ out' = NilOut
  /\ err' = NilErr
  /\ hist' = <<>>
  /\ ret' = NoRet
  /\ UNCHANGED maxAttempts

\* an operation is called, the handle is not set and GetSession fails
CallSetupFails(o, i) ==
  /\ pc = "idle"
  /\ ~handle[ClientOf(o)]
  /\ op' = o
  /\ in' = i
  /\ ctx' = LiveCtx
  /\ pc' = "done"
  /\ attempt' = 0
  /\ invocations' = 0
  /\ out' = NilOut
  /\ err' = NilErr
  /\ hist' = <<>>
  /\ ret' = [out |-> NilOut, err |-> SetupError]
  /\ UNCHANGED <<handle, maxAttempts>>

\* the context is cancelled while the call runs
Cancel ==
  /\ pc \in {"select", "remote"}
  /\ ~ctx.done
  /\ ctx' = [done |-> TRUE, at |-> pc, inv |-> invocations]
  /\ UNCHANGED <<handle, maxAttempts, op, in, pc, attempt, invocations, out, err, hist, ret>>

\* Retry's select finds the context done
ObserveCancel ==
  /\ pc = "select"
  /\ RetryCtx(op, ctx).done
  /\ pc' = "done"
  /\ ret' = OpReturn(Cancellation, out)
  /\ UNCHANGED <<handle, maxAttempts, op, in, ctx, attempt, invocations, out, err, hist>>

\* Retry's timer fires and the closure starts the remote call.  The first
\* timer is set to 0, so with a context that is already done either case of
\* the select can be taken; later timers are backoff delays, and a done
\* context wins.
Invoke ==
  /\ pc = "select"
  /\ attempt < maxAttempts
  /\ ~RetryCtx(op, ctx).done \/ attempt = 0
  /\ handle[ClientOf(op)]
  /\ invocations' = invocations + 1
  /\ pc' = "remote"
  /\ UNCHANGED <<handle, maxAttempts, op, in, ctx, attempt, out, err, hist, ret>>

\* the remote call returns resp, the closure classifies it, Retry decides
Return(resp) ==
  /\ pc = "remote"
  /\ out' = resp.out
  /\ err' = resp.err
  /\ LET res == Attempt(op, in, resp)
         d == RetryDecide(res, attempt, maxAttempts)
     IN /\ hist' = Append(hist, [rerr |-> resp.err.kind, retry |-> res.retry,
                                 enil |-> (res.err = NilErr)])
        /\ attempt' = attempt + 1
        /\ IF d.next = "return"
           THEN /\ pc' = "done"
                /\ ret' = OpReturn(d.err, resp.out)
           ELSE /\ pc' = "select"
                /\ ret' = ret
  /\ UNCHANGED <<handle, maxAttempts, op, in, ctx, invocations>>

\* what the remote call can answer: a call whose context was done when it
\* started fails with RequestCanceled; one cancelled on its way may also
RemoteAnswers ==
  IF ctx.done /\ ctx.at # "remote" THEN {[out |-> EmptyOut, err |-> RequestCanceledErr]}
  ELSE Responses(op, invocations)
       \cup (IF ctx.done THEN {[out |-> EmptyOut, err |-> RequestCanceledErr]} ELSE {})

\* the caller has the result and the call's variables are gone; the client
\* is ready for the next call
Finish ==
  /\ pc = "done"
  /\ pc' = "idle"
  /\ op' = "none"
  /\ in' = [Count |-> NilInt, Task |-> Nil]
  /\ ctx' = LiveCtx
  /\ attempt' = 0
  /\ invocations' = 0
  /\ out' = NilOut
  /\ err' = NilErr
  /\ hist' = <<>>
  /\ ret' = NoRet
  /\ UNCHANGED <<handle, maxAttempts>>

unchangedOthers == UNCHANGED <<failure, results, setupPc, setupOf, stores>>

Next ==
  \/ \E o \in Ops : \E i \in Inputs(o) : \E c \in BOOLEAN :
       CallSetupOK(o, i, c) /\ unchangedOthers
  \/ \E o \in Ops : \E i \in Inputs(o) : CallSetupFails(o, i) /\ unchangedOthers
  \/ Cancel /\ unchangedOthers
  \/ ObserveCancel /\ unchangedOthers
  \/ Invoke /\ unchangedOthers
  \/ \E resp \in RemoteAnswers : Return(resp) /\ unchangedOthers
  \/ Finish /\ unchangedOthers

Spec == Init /\ [][Next]_vars

(* ---------------- ConvertFailureToError called on its own ---------------- *)
\* the failures a caller can hand over: every field absent, empty or set
ConvertInputs ==
  [kind : {"failure"}, Arn : {Nil, "", "arn:1", "arn:2"},
   Reason : {Nil, "", ReasonTaskMissing, "OTHER", "RESOURCE:CPU"},
   Detail : {Nil, "", "disk full"}]
  \cup {NilFailure}

InitConvert ==
  /\ failure \in ConvertInputs
  /\ results = <<>>
  /\ SetupIdle
  /\ CallIdle
  /\ handle = [cl \in {"ecs", "sm"} |-> TRUE]
  /\ maxAttempts = 1

\* one call of ConvertFailureToError(f) on the caller's failure
Convert ==
  /\ Len(results) < MaxConvertCalls
  /\ results' = Append(results, ConvertFailureToError(failure))
  /\ UNCHANGED <<failure, handle, callVars, setupVars>>

\* the caller turns to another failure
NextFailure(f) ==
  /\ Len(results) > 0
  /\ failure' = f
  /\ results' = <<>>
  /\ UNCHANGED <<handle, callVars, setupVars>>

NextConvert ==
  \/ Convert
  \/ \E f \in ConvertInputs : NextFailure(f)

SpecConvert == InitConvert /\ [][NextConvert]_vars

(* ---------------- setup() under concurrent callers ---------------- *)
\* Several goroutines call operations on the same clients.  setup() reads and
\* writes c.ecs / c.sm without a lock, so its check, GetSession and the
\* assignment of the handle are separate steps of each caller.
InitSetup ==
  /\ handle \in [{"ecs", "sm"} -> BOOLEAN]
  /\ SetupIdle
  /\ ConvertIdle
  /\ CallIdle
  /\ maxAttempts = 1

\* caller c calls an operation of client cl, which starts with setup()
SetupEnter(c, cl) ==
  /\ setupPc[c] = "idle"
  /\ setupPc' = [setupPc EXCEPT ![c] = "check"]
  /\ setupOf' = [setupOf EXCEPT ![c] = cl]
  /\ UNCHANGED <<handle, stores, callVars, convertVars>>

\* if c.ecs != nil { return nil }
SetupCheck(c) ==
  /\ setupPc[c] = "check"
  /\ setupPc' = [setupPc EXCEPT ![c] = IF handle[setupOf[c]] THEN "ready" ELSE "session"]
  /\ UNCHANGED <<handle, setupOf, stores, callVars, convertVars>>

\* sess, err := c.GetSession() with err == nil
SetupSessionOK(c) ==
  /\ setupPc[c] = "session"
  /\ setupPc' = [setupPc EXCEPT ![c] = "assign"]
  /\ UNCHANGED <<handle, setupOf, stores, callVars, convertVars>>

\* sess, err := c.GetSession() with err != nil: setup returns the error
SetupSessionFails(c) ==
  /\ setupPc[c] = "session"
  /\ setupPc' = [setupPc EXCEPT ![c] = "failed"]
  /\ UNCHANGED <<handle, setupOf, stores, callVars, convertVars>>

\* c.ecs = ecs.New(sess)
SetupAssign(c) ==
  /\ setupPc[c] = "assign"
  /\ handle' = [handle EXCEPT ![setupOf[c]] = TRUE]
  /\ stores' = [stores EXCEPT ![setupOf[c]] = @ + 1]
  /\ setupPc' = [setupPc EXCEPT ![c] = "ready"]
  /\ UNCHANGED <<setupOf, callVars, convertVars>>

NextSetup ==
  \/ \E c \in Callers : \E cl \in {"ecs", "sm"} : SetupEnter(c, cl)
  \/ \E c \in Callers : SetupCheck(c)
  \/ \E c \in Callers : SetupSessionOK(c)
  \/ \E c \in Callers : SetupSessionFails(c)
  \/ \E c \in Callers : SetupAssign(c)

SpecSetup == InitSetup /\ [][NextSetup]_vars

(***************************************************************************)
(* Properties                                                              *)
(***************************************************************************)

\* the permanent tables as the specification lists them
ECSPermanentTable ==
  {"AccessDeniedException", "ClientException", "InvalidParameterException",
   "ClusterNotFoundException", "InvalidParameter", "ParamRequiredError"}

SMPermanentTable ==
  {"AccessDeniedException", "InvalidParameterException", "InvalidParameter",
   "InvalidRequestException", "ResourceNotFoundException",
   "ResourceExistsException", "ParamRequiredError"}

PermanentTable(client) == IF client = "ecs" THEN ECSPermanentTable ELSE SMPermanentTable

\* at least one remote call of the current call has returned; out and err
\* hold what the latest one returned
Answered == Len(hist) > 0

Last == hist[Len(hist)]

Returned == pc \in {"done", "idle"}

CapacityCase ==
  Answered /\ op = "RunTask" /\ err.kind = "aws" /\ Contains(ErrorText(err), CapacityPhrase)

TaskNotFoundCase ==
  /\ Answered /\ op = "StopTask" /\ err.kind = "aws" /\ err.code = "InvalidParameterException"
  /\ TaskNotFoundPhrase \in Phrases(err.message)

PermanentCase ==
  /\ Answered /\ err.kind = "aws" /\ err.code \in PermanentTable(ClientOf(op))
  /\ ~CapacityCase /\ ~TaskNotFoundCase

ResourceReasons == {"RESOURCE:CPU", "RESOURCE:MEMORY"}

HasResourceFailure(o) ==
  \E i \in DOMAIN o.Failures :
    o.Failures[i] # NilFailure /\ o.Failures[i].Reason \in ResourceReasons

\* the response the single-task heuristic is about
ResourceCase ==
  /\ Answered /\ op = "RunTask" /\ err = NilErr /\ in.Count = 1
  /\ out.Tasks = 0 /\ HasResourceFailure(out)

\* the latest answer is a failure that the specification calls transient
TransientCase ==
  \/ Answered /\ err # NilErr /\ ~PermanentCase /\ ~TaskNotFoundCase
  \/ ResourceCase

SuccessCase == Answered /\ err = NilErr /\ ~ResourceCase

InsufficientResources(e) ==
  e.kind = "wrap" /\ e.msg = "cluster has insufficient resources"

\* C1: with a context that is never cancelled, a call whose remote call
\* fails transiently N times and then succeeds returns the success value
\* after exactly N+1 invocations when N+1 <= maxAttempts: it never gives up
\* on a transient failure while attempts remain, the invocations before the
\* success all failed, and the success ends the call with its payload.
C1_SuccessAfterTransientFailures ==
  (Answered /\ ~ctx.done) =>
    /\ \A i \in 1..(Len(hist) - 1) : ~hist[i].enil /\ hist[i].retry
    /\ (pc # "remote" /\ TransientCase /\ Len(hist) < maxAttempts) =>
         (pc = "select" /\ ENABLED Invoke)
    /\ (pc # "remote" /\ SuccessCase) =>
         /\ Returned
         /\ ret = [out |-> out, err |-> NilErr]
         /\ invocations = Len(hist)
         /\ Len(hist) <= maxAttempts

C1_Witness ==
  /\ pc = "done" /\ ~ctx.done /\ SuccessCase
  /\ Len(hist) = 3 /\ invocations = 3 /\ maxAttempts = 3
  /\ ret.out = out /\ out # NilOut

\* C2: with a context that is never cancelled, a call all of whose remote
\* invocations fail transiently makes exactly maxAttempts invocations, never
\* more, and returns no payload and the last observed error wrapped as
\* exhaustion of the retries.
C2_ExhaustionAfterMaxAttempts ==
  /\ invocations <= maxAttempts
  /\ (Answered /\ ~ctx.done /\ Returned /\ TransientCase) =>
       /\ invocations = maxAttempts
       /\ Len(hist) = maxAttempts
       /\ ret.out = NilOut
       /\ ret.err.kind = "wrap" /\ ret.err.msg = "retries exhausted"
       /\ IF err # NilErr THEN ret.err.cause = err
          ELSE InsufficientResources(ret.err.cause)

C2_Witness ==
  /\ pc = "done" /\ ~ctx.done /\ TransientCase /\ err # NilErr
  /\ invocations = 3 /\ maxAttempts = 3
  /\ ret = [out |-> NilOut, err |-> Exhausted(err)]

\* C3: a remote error whose code is in the permanent table of the service
\* (and that is neither RunTask's capacity case nor StopTask's not-found
\* case) ends the call at once: the call returns that error unchanged and no
\* payload, and no further remote call is made (one invocation in all when
\* it is the first answer).
C3_PermanentNeverRetried ==
  (Answered /\ PermanentCase) =>
    /\ Returned
    /\ ret = [out |-> NilOut, err |-> err]
    /\ invocations = Len(hist)
    /\ ~Last.retry

C3_Witness ==
  /\ pc = "done" /\ PermanentCase /\ op = "DeleteSecret"
  /\ invocations = 1 /\ maxAttempts = 3 /\ ret.err = err /\ ret.out = NilOut

\* C4: the ECS classifier is true exactly on the codes of the ECS permanent
\* table: an ECS operation's attempt refuses to retry a remote error on the
\* classifier's word exactly when the code is in the table.
C4_ECSClassifierTable ==
  (Answered /\ op \in ECSGenericOps /\ err.kind = "aws") =>
    (~Last.retry <=> err.code \in ECSPermanentTable)

C4_Witness ==
  /\ Answered /\ op \in ECSGenericOps /\ err.kind = "aws"
  /\ err.code = "ClusterNotFoundException" /\ ~Last.retry /\ pc = "done"

\* C5: the Secrets Manager classifier is true exactly on the codes of the
\* Secrets Manager permanent table; every other code is treated as transient.
C5_SMClassifierTable ==
  (Answered /\ op \in SMOps /\ err.kind = "aws") =>
    (~Last.retry <=> err.code \in SMPermanentTable)

C5_Witness ==
  /\ Answered /\ op \in SMOps /\ err.kind = "aws"
  /\ err.code = "ResourceExistsException" /\ ~Last.retry /\ pc = "done"

\* the call goes on after the latest answer as far as budget and context
\* allow: it is making or about to make the next remote call, or it has
\* ended by exhaustion of the budget or by cancellation of the context
GoesOn ==
  /\ Last.retry /\ ~Last.enil
  /\ (pc = "select" /\ ~ctx.done) => ENABLED Invoke
  /\ pc = "remote" => invocations = Len(hist) + 1
  /\ Returned =>
       \/ Len(hist) = maxAttempts /\ ret.out = NilOut /\ ret.err.kind = "wrap"
          /\ ret.err.msg = "retries exhausted"
       \/ ctx.done /\ ret = [out |-> NilOut, err |-> Cancellation]

OtherReasonFailure(o) ==
  \E i \in DOMAIN o.Failures :
    o.Failures[i] # NilFailure /\ o.Failures[i].Reason \notin ResourceReasons

\* C6: RunTask with count 1 whose remote call returns, without error, zero
\* launched tasks and at least one failure with reason RESOURCE:CPU or
\* RESOURCE:MEMORY signals retry with an error, and the remote call is made
\* again whenever budget and context allow, also when other failures of the
\* response carry other reasons.
C6_SingleTaskResourceRetry ==
  (Answered /\ ResourceCase) =>
    /\ GoesOn
    /\ Returned /\ Len(hist) = maxAttempts /\ ~ctx.done =>
         InsufficientResources(ret.err.cause)

C6_Witness ==
  /\ ResourceCase /\ OtherReasonFailure(out)
  /\ pc = "remote" /\ invocations = 2 /\ Len(hist) = 1 /\ ~ctx.done

\* C7: RunTask with count > 1 never applies the capacity-retry heuristic:
\* whenever the remote call returns without error, whatever its launched
\* tasks and failures, no further remote call is made and that response is
\* returned.
C7_BatchNeverRetried ==
  (Answered /\ op = "RunTask" /\ FromInt64Ptr(in.Count) > 1 /\ err = NilErr) =>
    /\ Returned
    /\ ret = [out |-> out, err |-> NilErr]
    /\ invocations = Len(hist)
    /\ ~Last.retry

C7_Witness ==
  /\ Answered /\ pc = "done" /\ op = "RunTask" /\ in.Count = 2 /\ err = NilErr
  /\ out.Tasks = 0 /\ Len(out.Failures) = 2
  /\ \A i \in DOMAIN out.Failures :
       out.Failures[i] # NilFailure /\ out.Failures[i].Reason = "RESOURCE:CPU"
  /\ invocations = 1 /\ maxAttempts = 3 /\ ret.out = out

\* C8: in RunTask a remote error whose text says that the provisioning
\* capacity limit is exceeded is transient whatever its code, permanent
\* codes included: the attempt signals retry and the remote call is made
\* again when budget and context allow.
C8_CapacityLimitTransient ==
  (Answered /\ CapacityCase) =>
    /\ GoesOn
    /\ Returned /\ Len(hist) = maxAttempts /\ ~ctx.done => ret.err.cause = err

C8_Witness ==
  /\ CapacityCase /\ err.code \in ECSPermanentTable
  /\ pc = "remote" /\ invocations = 2 /\ Len(hist) = 1 /\ ~ctx.done

\* C9: in StopTask an InvalidParameterException whose message says that the
\* referenced task was not found ends the call at once with a task-NotFound
\* error carrying the request's task identifier, without any retry and
\* instead of the error the generic classifier would hand back.
C9_StopTaskNotFound ==
  (Answered /\ TaskNotFoundCase) =>
    /\ Returned
    /\ ret = [out |-> NilOut, err |-> [kind |-> "ECSTaskNotFound", id |-> FromStringPtr(in.Task)]]
    /\ invocations = Len(hist)
    /\ ~Last.retry

C9_Witness ==
  /\ pc = "done" /\ TaskNotFoundCase /\ in.Task = "t1"
  /\ invocations = 1 /\ maxAttempts = 3
  /\ ret.err = [kind |-> "ECSTaskNotFound", id |-> "t1"]

\* C10: once the context is cancelled during the backoff sleep between two
\* attempts, no further remote call is made although attempts remain, and
\* the call returns a cancellation error.
C10_CancelDuringBackoff ==
  (ctx.done /\ ctx.at = "select" /\ ctx.inv > 0) =>
    /\ invocations = ctx.inv
    /\ pc # "remote"
    /\ Returned => ret = [out |-> NilOut, err |-> Cancellation]

C10_Witness ==
  /\ pc = "done" /\ ctx.done /\ ctx.at = "select" /\ ctx.inv = 1
  /\ invocations = 1 /\ maxAttempts = 3 /\ ret.err = Cancellation

\* the failure handed to ConvertFailureToError is the missing-resource case:
\* its reason is the sentinel and an identifier is there
MissingCase ==
  failure # NilFailure /\ failure.Reason = "MISSING" /\ failure.Arn # Nil

\* C11: ConvertFailureToError returns a task-NotFound error carrying the
\* failure's identifier if and only if the reason is MISSING and an
\* identifier is present; MISSING without identifier, or an identifier with
\* another reason, gives the formatted error.
C11_NotFoundIffMissingWithIdentifier ==
  \A i \in DOMAIN results :
    failure # NilFailure =>
      /\ results[i].kind = "ECSTaskNotFound" <=> MissingCase
      /\ results[i].kind = "ECSTaskNotFound" => results[i].id = failure.Arn
      /\ results[i].kind # "ECSTaskNotFound" => results[i].kind = "new"

C11_Witness ==
  /\ Len(results) > 0 /\ failure # NilFailure
  /\ failure.Arn = "arn:1" /\ failure.Reason = "MISSING"
  /\ results[1] = [kind |-> "ECSTaskNotFound", id |-> "arn:1"]

Given(p) == p \notin {Nil, ""}

NoInformationText ==
  <<"ECS failure did not contain any additional failure information">>

\* the text the specification asks for: identifier, reason, detail, in that
\* order, those that are non-empty, each behind its label
LabelledText(f) ==
  LET A == <<"task '", f.Arn, "'">>
      R == <<"(reason) ", f.Reason>>
      D == <<"(detail) ", f.Detail>>
      sep == <<": ">>
      a == Given(f.Arn)
      r == Given(f.Reason)
      d == Given(f.Detail)
  IN CASE a /\ r /\ d -> A \o sep \o R \o sep \o D
       [] a /\ r /\ ~d -> A \o sep \o R
       [] a /\ ~r /\ d -> A \o sep \o D
       [] a /\ ~r /\ ~d -> A
       [] ~a /\ r /\ d -> R \o sep \o D
       [] ~a /\ r /\ ~d -> R
       [] ~a /\ ~r /\ d -> D
       [] OTHER -> NoInformationText

\* C12: outside the missing-resource case the error text is the
\* concatenation, in the order identifier, reason, detail, of the non-empty
\* fields with their labels, and the generic no-information error when all
\* three are empty or absent.
C12_FormattedText ==
  \A i \in DOMAIN results :
    (failure # NilFailure /\ ~MissingCase) =>
      results[i] = [kind |-> "new", text |-> LabelledText(failure)]

C12_Witness ==
  /\ Len(results) > 0 /\ failure # NilFailure
  /\ failure.Arn = "arn:2" /\ failure.Reason = "OTHER" /\ failure.Detail = "disk full"
  /\ results[1].kind = "new"
  /\ results[1].text = <<"task '", "arn:2", "'", ": ", "(reason) ", "OTHER", ": ",
                         "(detail) ", "disk full">>

\* the call is waiting to make, or is making, a further attempt
FurtherAttempt == pc \in {"select", "remote"}

OtherFailuresCase ==
  /\ Answered /\ op = "RunTask" /\ err = NilErr /\ in.Count = 1
  /\ out.Tasks = 0 /\ Len(out.Failures) > 0 /\ ~HasResourceFailure(out)

\* C14: RunTask with count 1 whose remote call returns, without error, zero
\* launched tasks and failures none of which has reason RESOURCE:CPU or
\* RESOURCE:MEMORY is not retried: the call returns after that invocation
\* with the response, failures included, and no error.
C14_OtherFailuresNotRetried ==
  OtherFailuresCase =>
    /\ Returned
    /\ ret = [out |-> out, err |-> NilErr]
    /\ invocations = Len(hist)
    /\ ~Last.retry

C14_Witness ==
  /\ OtherFailuresCase /\ pc = "done" /\ invocations = 1 /\ maxAttempts = 3
  /\ OtherReasonFailure(out) /\ ret.out = out /\ Len(ret.out.Failures) = 2

\* a call has been made on the client
Called == op # "none"

\* C16: no operation proceeds with an uninitialized session: the retry loop
\* and every remote call run with the client's service handle set, and a
\* call whose setup fails returns an error and no payload without any
\* remote call.
C16_NoCallWithoutSession ==
  /\ pc \in {"select", "remote"} => handle[ClientOf(op)]
  /\ invocations > 0 => handle[ClientOf(op)]
  /\ (Called /\ Returned /\ ~handle[ClientOf(op)]) =>
       (ret = [out |-> NilOut, err |-> SetupError] /\ invocations = 0 /\ hist = <<>>)
  /\ (Called /\ Returned /\ ret.err = SetupError) =>
       (ret.out = NilOut /\ invocations = 0 /\ hist = <<>>)

C16_Witness ==
  /\ Called /\ pc = "done" /\ ~handle[ClientOf(op)]
  /\ ret = [out |-> NilOut, err |-> SetupError] /\ invocations = 0

SecretNotFoundCase ==
  /\ Answered /\ op \in SMOps
  /\ err.kind = "aws" /\ err.code = "ResourceNotFoundException"

NotFoundKinds == {"ECSTaskNotFound", "SecretNotFound"}

\* C17 as stated: a secret operation that fails because the secret is not
\* found hands the caller a NotFound error carrying the identifier.
C17_SecretNotFoundTyped ==
  (SecretNotFoundCase /\ Returned) => ret.err.kind \in NotFoundKinds

\* C17 amended: a secret operation that fails with the remote code
\* resource-not-found returns that remote error unchanged, without retry and
\* without payload; callers branch on its code, only StopTask translates to
\* a typed NotFound error.
C17_SecretNotFoundPropagated ==
  SecretNotFoundCase =>
    /\ Returned
    /\ ret = [out |-> NilOut, err |-> err]
    /\ ret.err.kind \notin NotFoundKinds
    /\ invocations = Len(hist)

C17_Witness ==
  /\ SecretNotFoundCase /\ op = "DeleteSecret" /\ pc = "done"
  /\ invocations = 1 /\ maxAttempts = 3
  /\ ret.err.kind = "aws" /\ ret.err.code = "ResourceNotFoundException"

\* the latest answer of RunTask reports at least one launched task
LaunchedCase ==
  Answered /\ op = "RunTask" /\ err = NilErr /\ out.Tasks >= 1

\* C19: once an invocation of RunTask's remote call has returned a response
\* with at least one launched task, no further remote call is made and that
\* response is returned, for any count.
C19_AtMostOnceLaunch ==
  LaunchedCase =>
    /\ Returned
    /\ ret = [out |-> out, err |-> NilErr]
    /\ invocations = Len(hist)

C19_Witness ==
  /\ LaunchedCase /\ pc = "done" /\ in.Count = 1 /\ HasResourceFailure(out)
  /\ invocations = 2 /\ maxAttempts = 3 /\ ret.out = out

\* C20: every operation returns either a payload and no error, or no
\* payload and an error, and a returned payload is the response of the last
\* remote invocation of the call.
C20_PayloadXorError ==
  (Called /\ Returned) =>
    /\ \/ ret.out # NilOut /\ ret.err = NilErr
       \/ ret.out = NilOut /\ ret.err # NilErr
    /\ ret.err = NilErr =>
         /\ Answered
         /\ ret.out = out
         /\ Last.rerr = "nil"
         /\ invocations = Len(hist)
         /\ op # "RunTask" => ret.out = Payload(invocations)

C20_Witness ==
  /\ Called /\ pc = "done" /\ op = "UpdateSecretValue"
  /\ Len(hist) = 2 /\ invocations = 2
  /\ ret = [out |-> Payload(2), err |-> NilErr]

\* the latest answer of the remote call is an error without a code: it is
\* not an awserr.Error
UnstructuredCase == Answered /\ err.kind = "plain"

\* C21: an error of the remote call that is not an awserr.Error is transient
\* in every operation of both clients, RunTask and StopTask included, and
\* whatever its text says: the attempt signals retry with that error and
\* the call does not end on it unless the budget is used up, and then with
\* the exhaustion error around it, or the context is cancelled.
C21_UnstructuredErrorTransient ==
  UnstructuredCase =>
    /\ GoesOn
    /\ Returned /\ ~ctx.done => ret.err.cause = err

C21_Witness ==
  /\ UnstructuredCase /\ op = "StopTask" /\ in.Task = "t1"
  /\ Contains(err.text, TaskNotFoundPhrase)
  /\ pc = "remote" /\ invocations = 2 /\ Len(hist) = 1 /\ ~ctx.done

\* the response the single-task heuristic would retry, answered to a
\* request whose count is not set
UnsetCountCase ==
  /\ Answered /\ op = "RunTask" /\ err = NilErr /\ in.Count = NilInt
  /\ out.Tasks = 0 /\ HasResourceFailure(out)

\* C22: RunTask applies the single-task resource heuristic only when the
\* request's count is explicitly 1: a response without error signals retry
\* only under count 1, and with the count unset (read as 0) a response with
\* zero launched tasks and a RESOURCE:CPU or RESOURCE:MEMORY failure is not
\* retried and is returned with no error after that invocation.
C22_UnsetCountNotRetried ==
  /\ (Answered /\ op = "RunTask" /\ err = NilErr /\ Last.retry) => in.Count = 1
  /\ UnsetCountCase =>
       /\ Returned
       /\ ret = [out |-> out, err |-> NilErr]
       /\ invocations = Len(hist)
       /\ ~Last.retry

C22_Witness ==
  /\ UnsetCountCase /\ pc = "done" /\ invocations = 1 /\ maxAttempts = 3
  /\ ret.out = out /\ ret.err = NilErr

\* C15: under concurrent first use of a client the lazy setup creates and
\* stores the service handle at most once.
C15_HandleStoredAtMostOnce ==
  \A cl \in {"ecs", "sm"} : stores[cl] <= 1

====
